---- MODULE Spec2Model ----
(***************************************************************************)
(* Model of 2disktest.py: photoevaporative mass loss of circumstellar      *)
(* disks in a young star cluster, estimated from the FRIED grid.           *)
(*                                                                         *)
(* Units.  Floating-point quantities are carried as integers:              *)
(*   stellar and disk masses in MSun   : units of 0.001 MSun               *)
(*   disk mass passed to the grid      : MJupiter                          *)
(*   disk radius                       : AU                                *)
(*   FUV field                         : G0                                *)
(*   simulation time                   : half-years (so dt/2 is integral)  *)
(*   accumulated mass loss             : units of 1/LossUnit MSun          *)
(* numpy arrays are functions over 0..n-1, as in the source's indexing.    *)
(***************************************************************************)
EXTENDS Integers, Sequences, FiniteSets, TLC

VARIABLES
    pc,                 \* position of the running program
    \* luminosity_fit
    mass, lum,
    \* find_indices
    column, val, index_i, index_j,
    \* mass-loss estimator (body of the inner loop of main)
    grid, FRIED_grid, grid_log10Mdot,
    xi, subgrid, indices_list, Mdot_values, photoevap_Mdot,
    \* main: the populations and their disks
    stellar_mass, bright_stars, small_stars, disk_mass, disk_radius,
    \* main: the time loop
    t_end, time, dt, stellar_model_time, gravity_model_time,
    \* main: the nested loops over (bright, small) pairs
    s, ss, z, time_total_mass_loss,
    \* main: the arguments and results of the end-of-run report
    report,
    \* history: how often each accumulator entry was written in this timestep
    writes

vars == <<pc, mass, lum, column, val, index_i, index_j,
          grid, FRIED_grid, grid_log10Mdot,
          xi, subgrid, indices_list, Mdot_values, photoevap_Mdot,
          stellar_mass, bright_stars, small_stars, disk_mass, disk_radius,
          t_end, time, dt, stellar_model_time, gravity_model_time,
          s, ss, z, time_total_mass_loss, report, writes>>

lumVars == <<mass, lum>>
indexerVars == <<column, val, index_i, index_j>>
gridVars == <<grid, FRIED_grid, grid_log10Mdot>>
estimatorVars == <<xi, subgrid, indices_list, Mdot_values, photoevap_Mdot>>
starVars == <<stellar_mass, bright_stars, small_stars, disk_mass, disk_radius>>
clockVars == <<t_end, time, dt, stellar_model_time, gravity_model_time>>
loopVars == <<s, ss, z>>
driverVars == <<starVars, clockVars, loopVars, time_total_mass_loss, report, writes>>

(***************************************************************************)
(* Bounds of the model.                                                    *)
(***************************************************************************)
\* largest stellar mass (0.001 MSun) given to luminosity_fit: just over 20.2 MSun
MaxMass == 20210
\* longest column given to find_indices on its own
MaxLen == 4
\* column values are 1..MaxVal, query values 0..MaxVal+1
MaxVal == 4

(***************************************************************************)
(* Array helpers.                                                          *)
(***************************************************************************)
Arr(seq) == [k \in 0..(Len(seq) - 1) |-> seq[k + 1]]
Size(a) == Cardinality(DOMAIN a)
EmptyArr == Arr(<< >>)
MaxOf(S) == CHOOSE m \in S : \A o \in S : o <= m
MinOf(S) == CHOOSE m \in S : \A o \in S : m <= o
ArraysOver(n, S) == [0..(n - 1) -> S]
Arr4(a, b, c, d) == (0 :> a) @@ (1 :> b) @@ (2 :> c) @@ (3 :> d)
Arr6(a, b, c, d, e, f) == Arr4(a, b, c, d) @@ (4 :> e) @@ (5 :> f)
Arr8(a, b, c, d, e, f, g, h) == Arr6(a, b, c, d, e, f) @@ (6 :> g) @@ (7 :> h)

(***************************************************************************)
(* luminosity_fit (lines 12-40).  The ten if/elif branches, in order; each *)
(* is an open mass range (lo, hi); the last has no upper end.  A power law *)
(* value is carried as the segment that produced it and its argument.      *)
(***************************************************************************)
NoUpperEnd == [open |-> TRUE, at |-> 0]
UpperEnd(m) == [open |-> FALSE, at |-> m]

\* Segments with the last range closed at 20.2 MSun (no branch above it)
MutantSegments ==
    << [lo |-> 120,   hi |-> UpperEnd(240)],
       [lo |-> 240,   hi |-> UpperEnd(560)],
       [lo |-> 560,   hi |-> UpperEnd(700)],
       [lo |-> 700,   hi |-> UpperEnd(910)],
       [lo |-> 910,   hi |-> UpperEnd(1370)],
       [lo |-> 1370,  hi |-> UpperEnd(2070)],
       [lo |-> 2070,  hi |-> UpperEnd(3720)],
       [lo |-> 3720,  hi |-> UpperEnd(10000)],
       [lo |-> 10000, hi |-> UpperEnd(20200)],
       [lo |-> 20200, hi |-> UpperEnd(20200)] >>

Segments ==
    << [lo |-> 120,   hi |-> UpperEnd(240)],
       [lo |-> 240,   hi |-> UpperEnd(560)],
       [lo |-> 560,   hi |-> UpperEnd(700)],
       [lo |-> 700,   hi |-> UpperEnd(910)],
       [lo |-> 910,   hi |-> UpperEnd(1370)],
       [lo |-> 1370,  hi |-> UpperEnd(2070)],
       [lo |-> 2070,  hi |-> UpperEnd(3720)],
       [lo |-> 3720,  hi |-> UpperEnd(10000)],
       [lo |-> 10000, hi |-> UpperEnd(20200)],
       [lo |-> 20200, hi |-> NoUpperEnd] >>

InSegment(k, m) ==
    /\ Segments[k].lo < m
    /\ (Segments[k].hi.open \/ m < Segments[k].hi.at)

ZeroLum == [segment |-> 0, mass |-> 0]
PowerLaw(k, m) == [segment |-> k, mass |-> m]

luminosity_fit(m) ==
    LET hit == {k \in DOMAIN Segments : InSegment(k, m)}
    IN  IF hit = {} THEN ZeroLum ELSE PowerLaw(MinOf(hit), m)

(***************************************************************************)
(* find_indices (lines 127-155).                                           *)
(***************************************************************************)
\* numpy's reductions raise ValueError on an empty array
ValueError == [ok |-> FALSE, v |-> 0]
Value(v) == [ok |-> TRUE, v |-> v]
Elements(a) == {a[k] : k \in DOMAIN a}
amax(a) == IF DOMAIN a = {} THEN ValueError ELSE Value(MaxOf(Elements(a)))
amin(a) == IF DOMAIN a = {} THEN ValueError ELSE Value(MinOf(Elements(a)))

\* column[column < val] and column[column > val]: the selected values, in order
\* (kept under their row indices)
select_less(a, v) == [k \in {r \in DOMAIN a : a[r] < v} |-> a[k]]
select_greater(a, v) == [k \in {r \in DOMAIN a : a[r] > v} |-> a[k]]

\* numpy.where(column == v)[0]: the row indices holding v, ascending
where(a, v) == {k \in DOMAIN a : a[k] = v}

\* value_below taking the smallest, not the largest, value below val
MutantValueBelow(col, v) ==
    LET r == amin(select_less(col, v))
    IN  IF r.ok THEN r ELSE amin(col)

\* value_below falling back to the column's first element, not its minimum
MutantValueBelowFirst(col, v) ==
    LET r == amax(select_less(col, v))
    IN  IF r.ok THEN r ELSE IF DOMAIN col = {} THEN ValueError ELSE Value(col[0])

\* lines 138-142
value_below(col, v) ==
    LET r == amax(select_less(col, v))
    IN  IF r.ok THEN r ELSE amin(col)

\* value_above without the except branch
MutantValueAbove(col, v) ==
    amin(select_greater(col, v))

\* lines 147-151
value_above(col, v) ==
    LET r == amin(select_greater(col, v))
    IN  IF r.ok THEN r ELSE amax(col)

\* the last matching row instead of the first
MutantFirstIndex(S) == MaxOf(S)

\* [0][0] of numpy.where: the first matching row (IndexError if there is none)
FirstIndex(S) == MinOf(S)

Raised == [raised |-> TRUE, i |-> 0, j |-> 0]
Returned(i, j) == [raised |-> FALSE, i |-> i, j |-> j]

find_indices(col, v) ==
    LET below == value_below(col, v)
        above == value_above(col, v)
    IN  IF ~below.ok \/ ~above.ok THEN Raised
        ELSE IF where(col, below.v) = {} \/ where(col, above.v) = {} THEN Raised
        ELSE Returned(FirstIndex(where(col, below.v)), FirstIndex(where(col, above.v)))

(***************************************************************************)
(* Specification of luminosity_fit applied to every mass up to MaxMass.    *)
(***************************************************************************)
NoLum == [segment |-> 0 - 1, mass |-> 0]
NoArr == EmptyArr

IdleEstimator ==
    /\ grid = NoArr /\ FRIED_grid = NoArr /\ grid_log10Mdot = NoArr
    /\ xi = NoArr /\ subgrid = NoArr /\ indices_list = NoArr
    /\ Mdot_values = NoArr /\ photoevap_Mdot = 0
IdleIndexer == column = NoArr /\ val = 0 /\ index_i = 0 /\ index_j = 0
IdleDriver ==
    /\ stellar_mass = NoArr /\ bright_stars = NoArr /\ small_stars = NoArr
    /\ disk_mass = NoArr /\ disk_radius = NoArr
    /\ t_end = 0 /\ time = 0 /\ dt = 0 /\ stellar_model_time = 0 /\ gravity_model_time = 0
    /\ s = 0 /\ ss = 0 /\ z = 0
    /\ time_total_mass_loss = NoArr /\ report = NoArr /\ writes = NoArr
IdleLum == mass = 0 /\ lum = NoLum

InitLuminosity ==
    /\ pc = "call"
    /\ mass \in 0..MaxMass
    /\ lum = NoLum
    /\ IdleIndexer /\ IdleEstimator /\ IdleDriver

CallLuminosityFit ==
    /\ pc = "call"
    /\ lum' = luminosity_fit(mass)
    /\ pc' = "returned"
    /\ UNCHANGED <<mass, indexerVars, gridVars, estimatorVars, driverVars>>

NextLuminosity == CallLuminosityFit

SpecLuminosity == InitLuminosity /\ [][NextLuminosity]_vars

(***************************************************************************)
(* Specification of find_indices applied to every column of at most MaxLen *)
(* values in 1..MaxVal (any order, repeats allowed) and every query value  *)
(* in 0..MaxVal+1.                                                         *)
(***************************************************************************)
Columns == UNION {ArraysOver(n, 1..MaxVal) : n \in 0..MaxLen}

InitIndexer ==
    /\ pc = "call"
    /\ column \in Columns
    /\ val \in 0..(MaxVal + 1)
    /\ index_i = 0 /\ index_j = 0
    /\ IdleLum /\ IdleEstimator /\ IdleDriver

CallFindIndices ==
    /\ pc = "call"
    /\ LET r == find_indices(column, val)
       IN  /\ ~r.raised
           /\ index_i' = r.i
           /\ index_j' = r.j
    /\ pc' = "returned"
    /\ UNCHANGED <<column, val, lumVars, gridVars, estimatorVars, driverVars>>

FindIndicesRaises ==
    /\ pc = "call"
    /\ find_indices(column, val).raised
    /\ pc' = "raised"
    /\ UNCHANGED <<column, val, index_i, index_j, lumVars, gridVars, estimatorVars, driverVars>>

NextIndexer == CallFindIndices \/ FindIndicesRaises

SpecIndexer == InitIndexer /\ [][NextIndexer]_vars

(***************************************************************************)
(* The FRIED grid (lines 279-288).  A row of the file has six columns:     *)
(* stellar mass, FUV, disk mass, a spare column, disk radius, log10(Mdot). *)
(***************************************************************************)
\* longest grid file the estimator is run on
MaxRows == 2

\* line 282: FRIED_grid = grid[:, [0, 1, 2, 4]]
useful_parameters(g) == [r \in DOMAIN g |-> Arr4(g[r][0], g[r][1], g[r][2], g[r][4])]
\* line 283: grid_log10Mdot = grid[:, 5]
log10Mdot_column(g) == [r \in DOMAIN g |-> g[r][5]]
\* lines 285-288: FRIED_grid[:, c]
Column(F, c) == [r \in DOMAIN F |-> F[r][c]]
grid_stellar_masses == Column(FRIED_grid, 0)
grid_FUV == Column(FRIED_grid, 1)
grid_disk_mass == Column(FRIED_grid, 2)
grid_disk_radius == Column(FRIED_grid, 3)

(***************************************************************************)
(* Disk of a small star (lines 238, 240) and the query point xi (lines     *)
(* 325-329).                                                               *)
(***************************************************************************)
isqrt(n) == CHOOSE r \in 0..n : r * r <= n /\ n < (r + 1) * (r + 1)
\* 0.1 * stellar_mass, in 0.001 MSun
small_disk_mass(m) == m \div 10
\* 100 * sqrt(stellar_mass in MSun) AU = sqrt(10 * stellar_mass in 0.001 MSun)
small_disk_radius(m) == isqrt(10 * m)
\* value_in(units.MJupiter) of a mass in 0.001 MSun: 1 MSun = 1047.57 MJupiter
in_MJupiter(dm) == (dm * 1047) \div 1000

query_point(m, fuv, dm, dr) == Arr4(m, fuv, in_MJupiter(dm), dr)

(***************************************************************************)
(* Mass-loss estimator: the body of the inner loop (lines 331-365).        *)
(***************************************************************************)
\* lines 335, 340, 345, 350 and 356-359
bracket_indices(F, x) ==
    LET sm == find_indices(Column(F, 0), x[0])
        fu == find_indices(Column(F, 1), x[1])
        dm == find_indices(Column(F, 2), x[2])
        dr == find_indices(Column(F, 3), x[3])
    IN  [raised |-> sm.raised \/ fu.raised \/ dm.raised \/ dr.raised,
         list |-> Arr8(sm.i, sm.j, fu.i, fu.j, dm.i, dm.j, dr.i, dr.j)]

\* lines 332-352: subgrid[k] = FRIED_grid[indices_list[k]]
build_subgrid(F, il) == [k \in DOMAIN il |-> F[il[k]]]

\* list.index(x): the first position holding x
list_index(il, x) == MinOf({k \in DOMAIN il : il[k] = x})

\* lines 355-361.  Mdot_values is allocated uninitialised (numpy.ndarray) and
\* written at indices_list.index(x) for each x of indices_list; the entries
\* never written are left out of the function's domain.
fill_Mdot_values(logs, il) ==
    [p \in {list_index(il, il[k]) : k \in DOMAIN il} |-> logs[il[p]]]

\* squared Euclidean distance in the 4-D parameter space
Dist2(row, x) ==
    (row[0] - x[0]) * (row[0] - x[0]) + (row[1] - x[1]) * (row[1] - x[1])
    + (row[2] - x[2]) * (row[2] - x[2]) + (row[3] - x[3]) * (row[3] - x[3])

\* the distances of the 8 sub-grid points to the query
Distances(sub, x) ==
    Arr8(Dist2(sub[0], x), Dist2(sub[1], x), Dist2(sub[2], x), Dist2(sub[3], x),
         Dist2(sub[4], x), Dist2(sub[5], x), Dist2(sub[6], x), Dist2(sub[7], x))

\* the farthest point instead of the nearest
MutantNearestIndex(sub, x) ==
    LET d == Distances(sub, x)
        far == MaxOf(Elements(d))
    IN  MinOf({k \in DOMAIN d : d[k] = far})

\* griddata(method="nearest"): a k-d tree query over the 8 points; they fit one
\* leaf, which is scanned in order and keeps a point only if strictly closer
nearest_index(sub, x) ==
    LET d == Distances(sub, x)
        near == MinOf(Elements(d))
    IN  MinOf({k \in DOMAIN d : d[k] = near})

\* log10(Mdot) values a grid file holds; an entry of Mdot_values never written
\* holds whatever the allocator left there
LogVals == {0 - 1, 0}
Unwritten == LogVals \cup {7}

\* line 365: the values the interpolation can return
griddata_nearest(sub, mv, x) ==
    LET k == nearest_index(sub, x)
    IN  IF k \in DOMAIN mv THEN {mv[k]} ELSE Unwritten

\* lines 325-365 for one small star of mass m, disk (dm, dr), in the field fuv
Estimate(m, fuv, dm, dr) ==
    \E x \in {query_point(m, fuv, dm, dr)} :
    \E b \in {bracket_indices(FRIED_grid, x)} :
        /\ ~b.raised
        /\ xi' = x
        /\ indices_list' = b.list
        /\ subgrid' = build_subgrid(FRIED_grid, b.list)
        /\ Mdot_values' = fill_Mdot_values(grid_log10Mdot, b.list)
        /\ photoevap_Mdot' \in griddata_nearest(subgrid', Mdot_values', x)

(***************************************************************************)
(* Specification of the estimator on every grid of at most MaxRows rows    *)
(* over the column values below and every query a small star can produce.  *)
(***************************************************************************)
MassVals == {300, 800}
FUVVals == {10, 1000}
DiskMassVals == {31, 60}
SpareVals == {5}
DiskRadiusVals == {54, 80}
GridRows ==
    {Arr6(a, b, c, d, e, f) : a \in MassVals, b \in FUVVals, c \in DiskMassVals,
                                 d \in SpareVals, e \in DiskRadiusVals, f \in LogVals}
Grids == UNION {ArraysOver(n, GridRows) : n \in 1..MaxRows}

\* lines 279-288
LoadGrid(g) ==
    /\ grid = g
    /\ FRIED_grid = useful_parameters(g)
    /\ grid_log10Mdot = log10Mdot_column(g)

\* stellar masses below 1.9 MSun and FUV fields seen by them
SmallMasses == {200, 300, 500, 1000}
FUVFields == {0, 10, 100, 5000}

InitEstimator ==
    /\ pc = "query"
    /\ \E g \in Grids : LoadGrid(g)
    /\ xi = NoArr /\ subgrid = NoArr /\ indices_list = NoArr
    /\ Mdot_values = NoArr /\ photoevap_Mdot = 0
    /\ IdleLum /\ IdleIndexer /\ IdleDriver

RunEstimator ==
    /\ pc = "query"
    /\ \E m \in SmallMasses, fuv \in FUVFields :
           Estimate(m, fuv, small_disk_mass(m), small_disk_radius(m))
    /\ pc' = "estimated"
    /\ UNCHANGED <<gridVars, lumVars, indexerVars, driverVars>>

NextEstimator == RunEstimator

SpecEstimator == InitEstimator /\ [][NextEstimator]_vars

(***************************************************************************)
(* main (lines 200-406): the simulation driver.                            *)
(***************************************************************************)
\* most stars in a run
MaxStars == 4
\* latest end time of a run, in years (t_end is 2 * years half-years)
MaxYears == 2

\* stellar masses drawn for the cluster (0.001 MSun)
StarMasses == {300, 1900, 2070, 5000}
\* time steps the stellar-evolution code suggests (half-years)
TimeSteps == {2, 4}
\* the grid files the driver is run with
DriverGrids ==
    { (0 :> Arr6(300, 10, 31, 5, 54, 0)),
      (0 :> Arr6(300, 10, 31, 5, 54, 0 - 1)) @@ (1 :> Arr6(800, 1000, 60, 5, 80, 0)) }

\* the k-th smallest element of S (k from 0) and S as an ascending array
Nth(S, k) == CHOOSE i \in S : Cardinality({j \in S : j < i}) = k
ArrOfSet(S) == [k \in 0..(Cardinality(S) - 1) |-> Nth(S, k)]

\* line 231: stars[stars.stellar_mass > 1.9]
is_bright(m) == m > 1900
\* line 235: stars[stars.stellar_mass < 1.9]
is_small(m) == m < 1900

\* lines 12-40 applied on line 309, then lines 313-316: the FUV field (G0) at
\* the small star.  The distance is set by the gravity code; a zero luminosity
\* gives a zero field at any distance.
radiation_ss_G0(l) == IF l = ZeroLum THEN {0} ELSE FUVFields \ {0}

RECURSIVE Pow10(_)
Pow10(e) == IF e <= 0 THEN 1 ELSE 10 * Pow10(e - 1)
\* one solar mass in the units of the accumulated mass loss (0.1 MSun)
OneMSun == Pow10(1)
\* line 368: 10 ** photoevap_Mdot * dt.value_in(units.yr)
total_photoevap_mass_loss(log10Mdot, step) == Pow10(log10Mdot + 1) * (step \div 2)

\* z never advanced
MutantNextZ(k) == k

\* line 371
next_z(k) == k + 1

\* the step never shortened to the remaining time
MutantClampedDt(d, t, e) == d

\* line 294: min(dt, t_end - time)
clamped_dt(d, t, e) == IF d <= e - t THEN d ELSE e - t

\* the second stellar call stopping at the half step
MutantStellarFullTime(t, d) == t + d \div 2

\* line 295: the time requested of the stellar code before the gravity step
stellar_half_time(t, d) == t + d \div 2
\* line 298: the time requested of the gravity code
gravity_time(t, d) == t + d
\* line 387: the time requested of the stellar code after the mass-loss loops
stellar_full_time(t, d) == t + d

\* line 397: (1 - t) * ss.disk_mass, in units of 0.0001 MSun
enclosed_mass(t, dm) == (OneMSun - t) * dm
\* lines 192-196: the radius is finite iff 1 - mass / total_disk_mass > 0
radius_containing_mass(dm, m) ==
    [mass |-> m, total |-> OneMSun * dm, finite |-> OneMSun * dm - m > 0]

Populations == UNION {ArraysOver(n, StarMasses) : n \in 1..MaxStars}
\* the end times the -x option is given (half-years), an end before the start
\* included
EndTimes(years) == {2 * y : y \in (0 - 1)..years}
Zeros(n) == [k \in 0..(n - 1) |-> 0]

\* lines 215-227: the arguments of the run and the cluster drawn for it; the
\* end time is any float the -x option parses, an end before the start included
InitRun(clusters, ends) ==
    /\ pc = "classify"
    /\ stellar_mass \in clusters
    /\ t_end \in ends
    /\ \E g \in DriverGrids : grid = g
    /\ FRIED_grid = NoArr /\ grid_log10Mdot = NoArr
    /\ bright_stars = NoArr /\ small_stars = NoArr
    /\ disk_mass = NoArr /\ disk_radius = NoArr
    /\ time = 0 /\ dt = 0 /\ stellar_model_time = 0 /\ gravity_model_time = 0
    /\ s = 0 /\ ss = 0 /\ z = 0
    /\ time_total_mass_loss = NoArr /\ report = NoArr /\ writes = NoArr
    /\ xi = NoArr /\ subgrid = NoArr /\ indices_list = NoArr
    /\ Mdot_values = NoArr /\ photoevap_Mdot = 0
    /\ lum = NoLum /\ mass = 0
    /\ IdleIndexer

Init == InitRun(Populations, EndTimes(MaxYears))

\* lines 229-241: the two populations and their disks; a star in neither
\* population is given no disk attribute here
Classify ==
    /\ pc = "classify"
    /\ LET bright == {i \in DOMAIN stellar_mass : is_bright(stellar_mass[i])}
           small == {i \in DOMAIN stellar_mass : is_small(stellar_mass[i])}
       IN  /\ bright_stars' = ArrOfSet(bright)
           /\ small_stars' = ArrOfSet(small)
           /\ disk_mass' = [i \in bright \cup small |->
                               IF i \in small THEN small_disk_mass(stellar_mass[i]) ELSE 0]
           /\ disk_radius' = [i \in bright \cup small |->
                               IF i \in small THEN small_disk_radius(stellar_mass[i]) ELSE 0]
    /\ pc' = "setup"
    /\ UNCHANGED <<stellar_mass, clockVars, loopVars, time_total_mass_loss, report, writes,
                   lumVars, indexerVars, gridVars, estimatorVars>>

\* lines 246-290: time = 0, dt = the smallest suggested time step of the bright
\* stars, the grid is read, the accumulator is zeroed
Setup ==
    /\ pc = "setup"
    /\ Size(bright_stars) > 0
    /\ \E step \in TimeSteps : dt' = step
    /\ time' = 0
    /\ FRIED_grid' = useful_parameters(grid)
    /\ grid_log10Mdot' = log10Mdot_column(grid)
    /\ time_total_mass_loss' = Zeros(Size(small_stars))
    /\ writes' = Zeros(Size(small_stars))
    /\ pc' = "while"
    /\ UNCHANGED <<starVars, t_end, stellar_model_time, gravity_model_time, loopVars, report,
                   lumVars, indexerVars, grid, estimatorVars>>

\* line 276 with no bright star: amin() of an empty array of time steps raises
\* ValueError (numpy's minimum of a zero-size array), before the loop
SetupRaises ==
    /\ pc = "setup"
    /\ Size(bright_stars) = 0
    /\ pc' = "raised"
    /\ UNCHANGED <<driverVars, lumVars, indexerVars, gridVars, estimatorVars>>

\* lines 293-294
LoopTest ==
    /\ pc = "while"
    /\ time < t_end
    /\ dt' = clamped_dt(dt, time, t_end)
    /\ writes' = Zeros(Size(small_stars))
    /\ pc' = "stellar_half"
    /\ UNCHANGED <<starVars, t_end, time, stellar_model_time, gravity_model_time, loopVars,
                   time_total_mass_loss, report, lumVars, indexerVars, gridVars, estimatorVars>>

\* line 293, the loop's exit
LoopExit ==
    /\ pc = "while"
    /\ ~(time < t_end)
    /\ pc' = "report"
    /\ UNCHANGED <<driverVars, lumVars, indexerVars, gridVars, estimatorVars>>

\* line 295: stellar.evolve_model(time + dt/2)
StellarHalf ==
    /\ pc = "stellar_half"
    /\ stellar_model_time' = stellar_half_time(time, dt)
    /\ pc' = "copy_half"
    /\ UNCHANGED <<starVars, t_end, time, dt, gravity_model_time, loopVars,
                   time_total_mass_loss, report, writes,
                   lumVars, indexerVars, gridVars, estimatorVars>>

\* line 296: channel_from_stellar_to_gravity.copy()
CopyStellarToGravityHalf ==
    /\ pc = "copy_half"
    /\ pc' = "gravity"
    /\ UNCHANGED <<driverVars, lumVars, indexerVars, gridVars, estimatorVars>>

\* lines 297-299: gravity.evolve_model(time + dt)
GravityEvolve ==
    /\ pc = "gravity"
    /\ gravity_model_time' = gravity_time(time, dt)
    /\ s' = 0
    /\ pc' = "bright_loop"
    /\ UNCHANGED <<starVars, t_end, time, dt, stellar_model_time, ss, z,
                   time_total_mass_loss, report, writes,
                   lumVars, indexerVars, gridVars, estimatorVars>>

\* lines 306-311: the next bright star, its luminosity, z = 0
BrightStar ==
    /\ pc = "bright_loop"
    /\ s < Size(bright_stars)
    /\ mass' = stellar_mass[bright_stars[s]]
    /\ lum' = luminosity_fit(stellar_mass[bright_stars[s]])
    /\ z' = 0
    /\ ss' = 0
    /\ pc' = "small_loop"
    /\ UNCHANGED <<starVars, clockVars, s, time_total_mass_loss, report, writes,
                   indexerVars, gridVars, estimatorVars>>

\* lines 312-371: one small star irradiated by the current bright star; line 370
\* raises IndexError if z is past the end of the accumulator
SmallStar ==
    /\ pc = "small_loop"
    /\ ss < Size(small_stars)
    /\ LET star == small_stars[ss]
       IN  \E fuv \in radiation_ss_G0(lum) :
               Estimate(stellar_mass[star], fuv, disk_mass[star], disk_radius[star])
    /\ IF z \in DOMAIN time_total_mass_loss
       THEN /\ time_total_mass_loss' =
                   [time_total_mass_loss EXCEPT
                        ![z] = @ + total_photoevap_mass_loss(photoevap_Mdot', dt)]
            /\ writes' = [writes EXCEPT ![z] = @ + 1]
            /\ z' = next_z(z)
            /\ ss' = ss + 1
            /\ pc' = pc
       ELSE /\ pc' = "raised"
            /\ UNCHANGED <<time_total_mass_loss, writes, z, ss>>
    /\ UNCHANGED <<starVars, clockVars, s, report, lumVars, indexerVars, gridVars>>

\* line 312, the inner loop's end: on to the next bright star
SmallLoopEnd ==
    /\ pc = "small_loop"
    /\ ss = Size(small_stars)
    /\ s' = s + 1
    /\ pc' = "bright_loop"
    /\ UNCHANGED <<starVars, clockVars, ss, z, time_total_mass_loss, report, writes,
                   lumVars, indexerVars, gridVars, estimatorVars>>

\* line 306, the outer loop's end
BrightLoopEnd ==
    /\ pc = "bright_loop"
    /\ s = Size(bright_stars)
    /\ pc' = "stellar_full"
    /\ UNCHANGED <<driverVars, lumVars, indexerVars, gridVars, estimatorVars>>

\* line 387: stellar.evolve_model(time + dt)
StellarFull ==
    /\ pc = "stellar_full"
    /\ stellar_model_time' = stellar_full_time(time, dt)
    /\ pc' = "copy_full"
    /\ UNCHANGED <<starVars, t_end, time, dt, gravity_model_time, loopVars,
                   time_total_mass_loss, report, writes,
                   lumVars, indexerVars, gridVars, estimatorVars>>

\* line 388: channel_from_stellar_to_gravity.copy()
CopyStellarToGravityFull ==
    /\ pc = "copy_full"
    /\ pc' = "copy_framework"
    /\ UNCHANGED <<driverVars, lumVars, indexerVars, gridVars, estimatorVars>>

\* line 389: channel_from_gravity_to_framework.copy()
CopyGravityToFramework ==
    /\ pc = "copy_framework"
    /\ pc' = "advance"
    /\ UNCHANGED <<driverVars, lumVars, indexerVars, gridVars, estimatorVars>>

\* line 390: time += dt
AdvanceTime ==
    /\ pc = "advance"
    /\ time' = time + dt
    /\ pc' = "while"
    /\ UNCHANGED <<starVars, t_end, dt, stellar_model_time, gravity_model_time, loopVars,
                   time_total_mass_loss, report, writes,
                   lumVars, indexerVars, gridVars, estimatorVars>>

\* lines 393-406: the end-of-run report, one radius_containing_mass call per
\* small star
Report ==
    /\ pc = "report"
    /\ report' = [k \in DOMAIN small_stars |->
                     radius_containing_mass(
                         disk_mass[small_stars[k]],
                         enclosed_mass(time_total_mass_loss[k], disk_mass[small_stars[k]]))]
    /\ pc' = "done"
    /\ UNCHANGED <<starVars, clockVars, loopVars, time_total_mass_loss, writes,
                   lumVars, indexerVars, gridVars, estimatorVars>>

Next ==
    \/ Classify \/ Setup \/ SetupRaises
    \/ LoopTest \/ LoopExit
    \/ StellarHalf \/ CopyStellarToGravityHalf \/ GravityEvolve
    \/ BrightStar \/ SmallStar \/ SmallLoopEnd \/ BrightLoopEnd
    \/ StellarFull \/ CopyStellarToGravityFull \/ CopyGravityToFramework \/ AdvanceTime
    \/ Report

Spec == Init /\ [][Next]_vars

\* every call of the driver is blocking and returns (evolve_model, copy, the
\* estimator), and one thread runs the loop: a step that can be taken is taken
\* The clock of the loop does not depend on how many stars the cluster holds:
\* the fair runs take small clusters and later end times, so that a step cut
\* to the remaining time follows a full step.
\* latest end time of a fair run, in years
MaxFairYears == 3
\* the clusters of the fair runs: a bright star alone, a small star alone, a
\* small and a bright star in both orders, and a 1.9 MSun star beside a bright one
FairClusters ==
    { (0 :> 5000), (0 :> 300),
      (0 :> 300) @@ (1 :> 5000), (0 :> 2070) @@ (1 :> 300),
      (0 :> 1900) @@ (1 :> 5000) }
InitFair == InitRun(FairClusters, EndTimes(MaxFairYears))
SpecFair == InitFair /\ [][Next]_vars /\ WF_vars(Next)

(***************************************************************************)
(* Claims about find_indices, checked under SpecIndexer.                   *)
(***************************************************************************)
StrictlyBelow == {column[k] : k \in {r \in DOMAIN column : column[r] < val}}
StrictlyAbove == {column[k] : k \in {r \in DOMAIN column : column[r] > val}}
IsSorted(a) == \A k \in DOMAIN a : \A l \in DOMAIN a : k < l => a[k] <= a[l]

\* C1: for a non-empty column with a value strictly below val and a value
\* strictly above val, find_indices returns (i, j) with column[i] the largest
\* value strictly less than val and column[j] the smallest value strictly
\* greater than val, so column[i] < val < column[j]; sorted or not, val in
\* the column or not.
C1_Brackets ==
    (StrictlyBelow # {} /\ StrictlyAbove # {}) =>
        /\ pc # "raised"
        /\ pc = "returned" =>
            /\ index_i \in DOMAIN column /\ index_j \in DOMAIN column
            /\ column[index_i] \in StrictlyBelow
            /\ \A b \in StrictlyBelow : b <= column[index_i]
            /\ column[index_j] \in StrictlyAbove
            /\ \A a \in StrictlyAbove : column[index_j] <= a
            /\ column[index_i] < val /\ val < column[index_j]

C1_Witness ==
    /\ pc = "returned"
    /\ StrictlyBelow # {} /\ StrictlyAbove # {}
    /\ ~IsSorted(column)
    /\ val \in Elements(column)

\* C2: find_indices never raises for a non-empty column; with no value
\* strictly below val, i indexes the column minimum; with no value strictly
\* above val, j indexes the column maximum; a one-row column gives i = j = 0.
C2_ClampNoRaise ==
    (DOMAIN column # {}) =>
        /\ pc # "raised"
        /\ pc = "returned" =>
            /\ index_i \in DOMAIN column /\ index_j \in DOMAIN column
            /\ StrictlyBelow = {} => \A k \in DOMAIN column : column[index_i] <= column[k]
            /\ StrictlyAbove = {} => \A k \in DOMAIN column : column[k] <= column[index_j]
            /\ Size(column) = 1 => (index_i = 0 /\ index_j = 0)

C2_Witness ==
    /\ pc = "returned"
    /\ Size(column) >= 2
    /\ StrictlyAbove = {}
    /\ StrictlyBelow # {}
    /\ column[index_j] # column[0]

\* C10: when several rows hold the bracketing value, find_indices returns the
\* smallest row index holding it, for i and for j.
C10_FirstMatchingRow ==
    pc = "returned" =>
        /\ \A k \in DOMAIN column : column[k] = column[index_i] => index_i <= k
        /\ \A k \in DOMAIN column : column[k] = column[index_j] => index_j <= k

C10_Witness ==
    /\ pc = "returned"
    /\ \E k \in DOMAIN column : k # index_i /\ column[k] = column[index_i]
    /\ \E k \in DOMAIN column : k # index_j /\ column[k] = column[index_j]
    /\ index_i # index_j

(***************************************************************************)
(* Claims about the mass-loss estimator, checked under SpecEstimator.      *)
(***************************************************************************)
Positions == 0..7
Perms(n) == {p \in [0..(n - 1) -> 0..(n - 1)] : \A a, b \in 0..(n - 1) : a # b => p[a] # p[b]}
Permuted(g, p) == [r \in DOMAIN g |-> g[p[r]]]
\* the (parameter row, log10 Mdot) values of the rows the 8 indices select
Candidates(F, logs, il) == {<<F[il[k]], logs[il[k]]>> : k \in DOMAIN il}
CandidatesOn(g, x) ==
    Candidates(useful_parameters(g), log10Mdot_column(g),
               bracket_indices(useful_parameters(g), x).list)
\* the values the estimator can return on grid g for query x
EstimatesOn(g, x) ==
    LET F == useful_parameters(g)
        il == bracket_indices(F, x).list
    IN  griddata_nearest(build_subgrid(F, il), fill_Mdot_values(log10Mdot_column(g), il), x)
SameUnderPermutation(p) ==
    /\ CandidatesOn(Permuted(grid, p), xi) = Candidates(FRIED_grid, grid_log10Mdot, indices_list)
    /\ EstimatesOn(Permuted(grid, p), xi) = {photoevap_Mdot}
NoRepeatedColumnValue ==
    \A c \in 0..3 : \A r1, r2 \in DOMAIN FRIED_grid :
        r1 # r2 => FRIED_grid[r1][c] # FRIED_grid[r2][c]
\* position k of indices_list brackets column k \div 2; its bracketing value is
\* held by one row only
UniqueBracketRows ==
    \A k \in Positions :
        Cardinality(where(Column(FRIED_grid, k \div 2),
                          FRIED_grid[indices_list[k]][k \div 2])) = 1

\* C3 as stated: for every grid, every permutation of its rows and every query
\* point, the 8 candidate rows form the same set of (parameter row, log10 Mdot)
\* values and the nearest-neighbour result is the same, also when several rows
\* share a value in a column.
C3_RowOrderInvariant_AsStated ==
    pc = "estimated" => \A p \in Perms(Size(grid)) : SameUnderPermutation(p)

\* C3 amended: for every grid, every permutation of its rows and every query
\* point for which each of the 8 bracketing values is held by exactly one row
\* of its column (so for every grid with no value repeated in a column), the
\* candidate set and the nearest-neighbour result are the same.
C3_RowOrderInvariant ==
    (pc = "estimated" /\ UniqueBracketRows) =>
        \A p \in Perms(Size(grid)) : SameUnderPermutation(p)

C3_Witness ==
    /\ pc = "estimated"
    /\ NoRepeatedColumnValue
    /\ Size(grid) >= 2
    /\ grid_log10Mdot[0] # grid_log10Mdot[1]
    /\ Cardinality({indices_list[k] : k \in Positions}) = 1

\* C4: for every position k in 0..7, Mdot_values[k] = grid_log10Mdot[indices_list[k]]
\* and subgrid[k] = FRIED_grid[indices_list[k]], also when a row index occurs
\* more than once among the 8 indices: every entry is assigned before the
\* interpolation runs.
C4_EveryEntryAssigned ==
    pc = "estimated" =>
        \A k \in Positions :
            /\ subgrid[k] = FRIED_grid[indices_list[k]]
            /\ k \in DOMAIN Mdot_values
            /\ Mdot_values[k] = grid_log10Mdot[indices_list[k]]

\* C5: the estimate is the grid log10(Mdot) of one of the 8 candidate rows, one
\* whose parameter vector has minimal Euclidean distance to the query point.
C5_NearestCandidate ==
    pc = "estimated" =>
        \E k \in Positions :
            /\ photoevap_Mdot = grid_log10Mdot[indices_list[k]]
            /\ \A l \in Positions :
                   Dist2(FRIED_grid[indices_list[k]], xi) <= Dist2(FRIED_grid[indices_list[l]], xi)

C5_Witness ==
    /\ pc = "estimated"
    /\ \E k, l \in Positions :
           /\ Dist2(FRIED_grid[indices_list[k]], xi) < Dist2(FRIED_grid[indices_list[l]], xi)
           /\ photoevap_Mdot = grid_log10Mdot[indices_list[k]]
           /\ photoevap_Mdot # grid_log10Mdot[indices_list[l]]

(***************************************************************************)
(* Claims about the driver, checked under Spec.                            *)
(***************************************************************************)
InArr(a, i) == \E k \in DOMAIN a : a[k] = i
Classified == pc \notin {"classify"}

\* C6: in the end-of-run report, for every small star and every run, the mass
\* given to radius_containing_mass, (1 - accumulated_loss) * disk_mass, is
\* strictly between 0 and the star's disk mass, so the radius is finite.
C6_EnclosedMassInsideDisk ==
    pc = "done" =>
        \A k \in DOMAIN report :
            /\ 0 < report[k].mass
            /\ report[k].mass < report[k].total
            /\ report[k].finite

\* C7: the accumulated mass loss is one scalar per small star, zero before the
\* loop; in every timestep the entry of the z-th small star is incremented once
\* for each bright star, by a positive amount, and by nothing else: entries
\* never decrease, are never reset, are never written by a pair of another
\* small star, and stay zero when there is no bright star.
C7_StateInvariant ==
    /\ pc \in {"while", "stellar_half", "copy_half", "gravity", "bright_loop", "small_loop",
               "stellar_full", "copy_full", "copy_framework", "advance", "report", "done"} =>
           DOMAIN time_total_mass_loss = DOMAIN small_stars
    /\ (pc = "while" /\ time = 0) => \A k \in DOMAIN time_total_mass_loss : time_total_mass_loss[k] = 0
    /\ pc \in {"stellar_full", "copy_full", "copy_framework", "advance"} =>
           \A k \in DOMAIN writes : writes[k] = Size(bright_stars)
    /\ Size(bright_stars) = 0 => \A k \in DOMAIN time_total_mass_loss : time_total_mass_loss[k] = 0
    /\ pc = "raised" => Size(bright_stars) = 0
C7_Step ==
    /\ pc = "setup" => (pc' = "raised" \/ time_total_mass_loss' = Zeros(Size(small_stars)))
    /\ pc # "setup" =>
        /\ DOMAIN time_total_mass_loss' = DOMAIN time_total_mass_loss
        /\ \A k \in DOMAIN time_total_mass_loss :
            \/ time_total_mass_loss'[k] = time_total_mass_loss[k]
            \/ /\ pc = "small_loop" /\ k = z /\ k = ss
               /\ time_total_mass_loss'[k] > time_total_mass_loss[k]
               /\ writes'[k] = writes[k] + 1
        /\ (pc = "small_loop" /\ ss' # ss) =>
               /\ ss \in DOMAIN time_total_mass_loss
               /\ time_total_mass_loss'[ss] > time_total_mass_loss[ss]
\* C7: the state invariant and the step property above, together
C7_AccumulatedPerSmallStar == []C7_StateInvariant /\ [][C7_Step]_vars

C7_Witness ==
    /\ pc = "stellar_full"
    /\ time > 0
    /\ Size(bright_stars) = 2
    /\ Size(small_stars) = 2
    /\ time_total_mass_loss[0] # time_total_mass_loss[1]

\* C8: every star is in exactly one of the two populations: below 1.9 MSun it
\* is a small star with disk mass 0.1 x stellar mass > 0 and disk radius > 0; at
\* or above 1.9 MSun (1.9 included) it is a bright star with disk mass and disk
\* radius zero.
C8_EveryStarClassified ==
    Classified =>
        \A i \in DOMAIN stellar_mass :
            /\ InArr(bright_stars, i) # InArr(small_stars, i)
            /\ stellar_mass[i] < 1900 =>
                   /\ InArr(small_stars, i)
                   /\ disk_mass[i] = stellar_mass[i] \div 10
                   /\ disk_mass[i] > 0 /\ disk_radius[i] > 0
            /\ stellar_mass[i] >= 1900 =>
                   /\ InArr(bright_stars, i)
                   /\ disk_mass[i] = 0 /\ disk_radius[i] = 0

(***************************************************************************)
(* Claim about luminosity_fit, checked under SpecLuminosity.               *)
(***************************************************************************)
InteriorBoundaries == {240, 560, 700, 910, 1370, 2070, 3720, 10000, 20200}
OutsideAllRanges(m) == m <= 120 \/ m \in InteriorBoundaries
Selected(m) == {k \in DOMAIN Segments : InSegment(k, m)}

\* C9: luminosity_fit returns zero for every mass at or below 0.12 and for
\* every mass equal to an interior boundary; for every other mass exactly one
\* segment's range holds the mass and the result is that segment's power law,
\* not the zero default.
C9_ZeroOnlyOutsideRanges ==
    pc = "returned" =>
        /\ OutsideAllRanges(mass) => lum = ZeroLum
        /\ ~OutsideAllRanges(mass) =>
            /\ Cardinality(Selected(mass)) = 1
            /\ \A k \in Selected(mass) : lum = PowerLaw(k, mass)
            /\ lum # ZeroLum

C9_Witness ==
    /\ pc = "returned"
    /\ mass \in InteriorBoundaries
    /\ lum = ZeroLum

(***************************************************************************)
(* Claims about the time loop of main, checked under SpecFair.             *)
(***************************************************************************)
Started == pc \notin {"classify", "setup", "raised"}
InIteration ==
    pc \in {"stellar_half", "copy_half", "gravity", "bright_loop", "small_loop",
            "stellar_full", "copy_full", "copy_framework", "advance"}
LoopLeft == pc \in {"report", "done"}

\* the time stays between the start and the end, and inside an iteration the
\* step fits in the remaining time
C11_TimeWithinRun ==
    /\ Started => 0 <= time /\ time <= t_end
    /\ InIteration => 0 < dt /\ time + dt <= t_end
    /\ LoopLeft => time = t_end

\* line 294 never lengthens the step and cuts it to the remaining time; only
\* lines 276 and 294 assign the step, and only line 390 advances the time
C11_Step ==
    /\ (pc = "setup" /\ pc' = "while") => dt' \in TimeSteps /\ time' = 0
    /\ (pc = "while" /\ pc' = "stellar_half") =>
           dt' <= dt /\ dt' <= t_end - time /\ (dt' = dt \/ dt' = t_end - time)
    /\ dt' # dt => pc \in {"setup", "while"}
    /\ time' # time => pc = "advance" /\ time' = time + dt
    /\ t_end' = t_end

\* the statement without a condition on the end time: the time never exceeds
\* t_end, and with a positive suggested step the loop is left with time = t_end
C11_TimeReachesEnd_AsStated ==
    /\ [](Started => time <= t_end)
    /\ [][C11_Step]_vars
    /\ (pc = "while" /\ dt > 0) ~> (LoopLeft /\ time = t_end)

\* C11: in a run whose end time is not before its start (t_end >= 0), every
\* iteration's step is at most the suggested time step and at most the
\* remaining time, the time never exceeds t_end, and with a positive suggested
\* step the loop is left after finitely many iterations with time = t_end.
\* With t_end < 0 the loop body never runs and time stays 0, above t_end.
C11_TimeReachesEnd ==
    /\ [](t_end >= 0 => C11_TimeWithinRun)
    /\ [][C11_Step]_vars
    /\ (pc = "while" /\ dt > 0 /\ t_end >= 0) ~> (LoopLeft /\ time = t_end)

\* the loop left with time = t_end after more than one iteration, the end
\* time not a multiple of the longest suggested step
C11_Witness ==
    /\ pc = "report"
    /\ time = t_end
    /\ 0 < dt /\ dt < t_end
    /\ t_end % 4 # 0
    /\ writes # NoArr /\ \E k \in DOMAIN writes : writes[k] > 0

(***************************************************************************)
(* Claim about the order of the calls in one iteration, checked under Spec.*)
(***************************************************************************)
\* the position that follows each position of an iteration (lines 295-390);
\* the two for-loops stay at their position while they iterate
Follows ==
    [p \in {"while", "stellar_half", "copy_half", "gravity", "bright_loop", "small_loop",
            "stellar_full", "copy_full", "copy_framework", "advance"} |->
        CASE p = "while"          -> {"stellar_half", "report"}
          [] p = "stellar_half"   -> {"copy_half"}
          [] p = "copy_half"      -> {"gravity"}
          [] p = "gravity"        -> {"bright_loop"}
          [] p = "bright_loop"    -> {"small_loop", "stellar_full"}
          [] p = "small_loop"     -> {"small_loop", "bright_loop"}
          [] p = "stellar_full"   -> {"copy_full"}
          [] p = "copy_full"      -> {"copy_framework"}
          [] p = "copy_framework" -> {"advance"}
          [] p = "advance"        -> {"while"}]

BothAt(t_stellar, t_gravity) ==
    stellar_model_time = t_stellar /\ gravity_model_time = t_gravity

\* where the two codes stand at each position of the iteration
C12_StateInvariant ==
    /\ pc \in {"while", "report", "done"} => BothAt(time, time)
    /\ pc = "stellar_half" => BothAt(time, time)
    /\ pc \in {"copy_half", "gravity"} => BothAt(time + dt \div 2, time)
    /\ pc \in {"bright_loop", "small_loop", "stellar_full"} =>
           BothAt(time + dt \div 2, time + dt)
    /\ pc = "stellar_full" =>
           \A k \in DOMAIN writes : writes[k] = Size(bright_stars)
    /\ pc \in {"copy_full", "copy_framework", "advance"} => BothAt(time + dt, time + dt)

\* each step goes to the position that follows, each call requests the time the
\* claim names, and no request is earlier than the one before it
C12_Step ==
    /\ pc \in DOMAIN Follows => pc' \in Follows[pc]
    /\ stellar_model_time' # stellar_model_time =>
           \/ pc = "stellar_half" /\ stellar_model_time' = time + dt \div 2
           \/ pc = "stellar_full" /\ stellar_model_time' = time + dt
    /\ gravity_model_time' # gravity_model_time =>
           pc = "gravity" /\ gravity_model_time' = time + dt
    /\ (Started /\ time_total_mass_loss' # time_total_mass_loss) => pc = "small_loop"
    /\ time' # time => pc = "advance" /\ time' = time + dt
    /\ stellar_model_time' >= stellar_model_time
    /\ gravity_model_time' >= gravity_model_time

\* C12: every iteration runs stellar to time + dt/2, copy stellar->gravity,
\* gravity to time + dt, the mass-loss estimation of every (bright, small)
\* pair, stellar to time + dt, copy stellar->gravity, copy gravity->framework,
\* time += dt, in this order; at the start of every iteration and at the
\* loop's exit both requested model times equal the driver's time, and no
\* request to either code is earlier than the request before it.
C12_FixedOrderInSync == []C12_StateInvariant /\ [][C12_Step]_vars

\* the start of a later iteration, both codes standing at the driver's time
C12_Witness ==
    /\ pc = "while"
    /\ 0 < time /\ time < t_end
    /\ BothAt(time, time)
    /\ \E k \in DOMAIN writes : writes[k] > 0

====
